---- MODULE Spec2Model ----
(***************************************************************************)
(* Smart Attendance: the simulated face matcher (utils/faceRecognition),   *)
(* the notification list (hooks/useNotifications) and the attendance       *)
(* pipeline of CameraView / App / useDatabase over the Supabase tables.    *)
(*                                                                         *)
(* Confidences, thresholds and random draws are integers in thousandths    *)
(* (0.75 is 750, Math.random() ranges over 0..999).  Times of day are      *)
(* minutes since midnight, dates are day numbers.                          *)
(***************************************************************************)
EXTENDS Integers, Sequences, FiniteSets, TLC

VARIABLES
    \* ---- one invocation of simulateFaceRecognition (specification MatchSpec)
    m_students,     \* the students argument
    m_threshold,    \* the confidenceThreshold argument
    m_now,          \* Date.now(), in days
    m_rnd,          \* the values Math.random() has returned so far, in order
    m_pc,           \* "call" | "delay" | "done"
    m_delayed,      \* TRUE once the invocation has awaited the setTimeout promise
    m_result        \* the value the promise resolves to

matchVars == <<m_students, m_threshold, m_now, m_rnd, m_pc, m_delayed, m_result>>

VARIABLES
    \* ---- the notification list of useNotifications
    notifications,  \* NotificationMessage[], newest first
    \* ---- its environment in specification NotifSpec
    n_now,          \* Date.now(), in milliseconds
    n_calls,        \* calls of addNotification / markAsRead / clearAll so far
    n_last          \* the last call: [op, arg, prev], prev the list it was applied to

notifVars == <<notifications, n_now, n_calls, n_last>>

VARIABLES
    \* ---- the Supabase tables
    db_students,    \* students rows, in insertion (created_at) order
    db_records,     \* attendance_records rows
    \* ---- useDatabase
    students,       \* Student[], as last fetched
    records,        \* AttendanceRecord[], as last fetched
    loading,
    error,          \* Null or Some(message)
    ops,            \* the calls of useDatabase in flight
    \* ---- App
    settings,       \* AttendanceSettings
    activeTab,
    \* ---- CameraView
    camera,         \* Null while not mounted, else Some of its state
    attempts,       \* the calls of handleRecognition awaiting the matcher
    \* ---- StudentRegistry, SettingsPanel
    panel,          \* Null, or Some of the state of the one that is mounted
    \* ---- React
    view,           \* the props and state of the committed render
    timer,          \* the render the interval callback closes over, or Null
    \* ---- the environment
    clock,          \* index into ClockPoints: what new Date() reads
    started,        \* attempts and registry operations started so far
    \* ---- what the last calls did
    lastDecision,   \* the last call of handleAttendanceMarked
    lastMarked,     \* the last notice after a stored attendance record
    lastRemoved,    \* the last call of removeStudent that returned
    lastToggled     \* the last call of toggleStudentStatus

dbVars == <<db_students, db_records>>
hookVars == <<students, records, loading, error, ops>>
appVars == <<settings, activeTab, camera, attempts, panel, view, timer>>
envVars == <<clock, started>>
lastVars == <<lastDecision, lastMarked, lastRemoved, lastToggled>>
mainVars == <<dbVars, hookVars, appVars, envVars, lastVars>>

vars == <<matchVars, notifVars, mainVars>>

Max(a, b) == IF a >= b THEN a ELSE b
Min(a, b) == IF a <= b THEN a ELSE b

\* null, and a non-null value x
Null == <<>>
Some(x) == <<x>>

(***************************************************************************)
(* Each specification below runs one part of the program; the variables of *)
(* the other parts rest at these values.                                   *)
(***************************************************************************)
MatchIdle ==
    /\ m_students = <<>> /\ m_threshold = 0 /\ m_now = 0 /\ m_rnd = <<>>
    /\ m_pc = "done" /\ m_delayed = FALSE /\ m_result = Null

NotifIdle ==
    /\ n_now = 0 /\ n_calls = 0 /\ n_last = Null

MainIdle ==
    /\ db_students = <<>> /\ db_records = {}
    /\ students = <<>> /\ records = {} /\ loading = FALSE /\ error = Null
    /\ ops = <<>> /\ settings = Null /\ activeTab = "camera"
    /\ camera = Null /\ attempts = <<>> /\ panel = Null /\ view = Null /\ timer = Null
    /\ clock = 1 /\ started = Null
    /\ lastDecision = Null /\ lastMarked = Null /\ lastRemoved = Null
    /\ lastToggled = Null

(***************************************************************************)
(* Bounds of the model                                                     *)
(***************************************************************************)
MaxStudents == 2
\* calls of the notification operations in one run of NotifSpec
MaxNotifCalls == 3
\* milliseconds the clock of NotifSpec may advance
MaxNotifClock == 3
\* calls of handleRecognition that reach the matcher in one run of Spec
MaxAttempts == 2
\* operations of the student registry started in one run of Spec
MaxRegistryOps == 2
\* requests the server refuses in one run of Spec
MaxFailures == 1
\* attempts and removals started in one run of RosterSpec
MaxRosterOps == 2
\* changes made in the settings panel in one run of SettingsSpec
MaxSettingsEdits == 1

\* values of Math.random(): 100 is below the false-negative rate, the others
\* give base confidences 0.872, 0.874 and 0.949
RandomDraws == {100, 778, 783, 999}
\* thresholds: multiples of 0.01, one that is not (0.872), one above the cap
Thresholds == {0, 750, 872, 990}
\* registration days of students, for a clock that reads day 40
RegisteredAts == {0, 25, 40}
Photos == {"", "img"}

(***************************************************************************)
(* simulateFaceRecognition                                                 *)
(***************************************************************************)
DecayDays == 30
MaxConfidence == 980
FalseNegativeRate == 150

\* parseFloat(confidence.toFixed(2))
Round2(c) == ((c + 5) \div 10) * 10

\* 0.6 + Math.random() * 0.35
BaseConfidence(u) == 600 + (350 * u) \div 1000

\* Math.max(0, 0.1 - timeSinceRegistration / (1000 * 60 * 60 * 24 * 30)): the
\* time is in days here, and its quotient by 30 days is taken off 0.1 whole
TimeBonus(timeSinceRegistration) ==
    Max(0, 100 - (1000 * timeSinceRegistration) \div DecayDays)

\* Math.min(0.98, baseConfidence + timeBonus)
Confidence(student, now, u) ==
    Min(MaxConfidence, BaseConfidence(u) + TimeBonus(now - student.registeredAt))

\* a plausible slip: the photo filter inverted
StudentsMissingPhotos(studentList) == SelectSeq(studentList, LAMBDA s : s.photo = "")

\* a plausible slip: the photo filter left out
StudentsUnfiltered(studentList) == studentList

\* students.filter(s => s.photo)
StudentsWithPhotos(studentList) == SelectSeq(studentList, LAMBDA s : s.photo # "")

\* a plausible slip: the threshold comparison inverted
ReplacesInverted(confidence, confidenceThreshold, bestMatch) ==
    /\ confidence <= confidenceThreshold
    /\ (bestMatch = Null \/ confidence > bestMatch[1].confidence)

\* the condition of the if in the loop body
Replaces(confidence, confidenceThreshold, bestMatch) ==
    /\ confidence >= confidenceThreshold
    /\ (bestMatch = Null \/ confidence > bestMatch[1].confidence)

\* the for loop from candidate i on; candidate i uses draw rnd[i + 1]
RECURSIVE MatchLoop(_, _, _, _, _, _)
MatchLoop(cands, now, rnd, confidenceThreshold, i, bestMatch) ==
    IF i > Len(cands) THEN bestMatch
    ELSE LET student == cands[i]
             confidence == Confidence(student, now, rnd[i + 1])
         IN  MatchLoop(cands, now, rnd, confidenceThreshold, i + 1,
                 IF Replaces(confidence, confidenceThreshold, bestMatch)
                 THEN Some([student |-> student, confidence |-> Round2(confidence)])
                 ELSE bestMatch)

\* a plausible slip: the comparison of the false-negative draw inverted
FalseNegativeInverted(u) == u > FalseNegativeRate

\* Math.random() < 0.15
FalseNegative(u) == u < FalseNegativeRate

\* the part of simulateFaceRecognition after the await: rnd[1] was the delay
\* draw, rnd[2..n+1] score the n candidates, rnd[n+2] is the false-negative draw
MatchAfterDelay(studentList, confidenceThreshold, now, rnd) ==
    LET cands == StudentsWithPhotos(studentList)
        bestMatch == MatchLoop(cands, now, rnd, confidenceThreshold, 1, Null)
    IN  IF FalseNegative(rnd[Len(cands) + 2]) THEN Null ELSE bestMatch

\* simulateFaceRecognition as a function of its arguments, the clock and the
\* values Math.random() returns
SimulateFaceRecognition(studentList, confidenceThreshold, now, rnd) ==
    IF Len(StudentsWithPhotos(studentList)) = 0 THEN Null
    ELSE MatchAfterDelay(studentList, confidenceThreshold, now, rnd)

StudentLists ==
    UNION { [1..n -> [id : 1..MaxStudents, photo : Photos, registeredAt : RegisteredAts]]
            : n \in 0..MaxStudents }

\* the rows of a student list have distinct ids, in ascending id order
WellFormed(studentList) ==
    \A i \in 1..Len(studentList) : studentList[i].id = i

MatchInit ==
    /\ notifications = <<>>
    /\ NotifIdle
    /\ MainIdle
    /\ m_students \in { s \in StudentLists : WellFormed(s) }
    /\ m_threshold \in Thresholds
    /\ m_now = 40
    /\ m_rnd = <<>>
    /\ m_pc = "call"
    /\ m_delayed = FALSE
    /\ m_result = Null

\* the call up to the first await, or to the early return
MatchCall ==
    /\ m_pc = "call"
    /\ IF Len(StudentsWithPhotos(m_students)) = 0
       THEN /\ m_pc' = "done"
            /\ m_result' = Null
            /\ UNCHANGED <<m_rnd, m_delayed>>
       ELSE /\ \E u \in RandomDraws : m_rnd' = <<u>>
            /\ m_pc' = "delay"
            /\ m_delayed' = TRUE
            /\ UNCHANGED m_result
    /\ UNCHANGED <<m_students, m_threshold, m_now>>

\* the timer fires: the loop and the false-negative draw
MatchResume ==
    /\ m_pc = "delay"
    /\ \E tail \in [1..(Len(StudentsWithPhotos(m_students)) + 1) -> RandomDraws] :
          /\ m_rnd' = m_rnd \o tail
          /\ m_result' = MatchAfterDelay(m_students, m_threshold, m_now, m_rnd')
    /\ m_pc' = "done"
    /\ UNCHANGED <<m_students, m_threshold, m_now, m_delayed>>

MatchNext == (MatchCall \/ MatchResume) /\ UNCHANGED <<notifVars, mainVars>>

MatchSpec == MatchInit /\ [][MatchNext]_vars

(***************************************************************************)
(* useNotifications                                                        *)
(***************************************************************************)
NotificationLimit == 50

\* the notifications the application raises: type and title
NotificationKinds ==
    { [type |-> "success", title |-> "Attendance Marked"],
      [type |-> "warning", title |-> "Already Marked"],
      [type |-> "error",   title |-> "Error"] }

\* the object addNotification builds: id is Date.now().toString()
NewNotification(notification, now) ==
    [type |-> notification.type, title |-> notification.title,
     id |-> ToString(now), timestamp |-> now, read |-> FALSE]

\* array.slice(0, n)
Slice(arr, n) == SubSeq(arr, 1, Min(n, Len(arr)))

\* a plausible slip: the new entry appended at the end, the newest of the
\* overflow dropped
AddNotificationAtEnd(prev, newNotification) ==
    Slice(prev \o <<newNotification>>, NotificationLimit)

\* the updater of addNotification: [newNotification, ...prev].slice(0, 50)
AddNotification(prev, newNotification) ==
    Slice(<<newNotification>> \o prev, NotificationLimit)

\* the updater of markAsRead
MarkAsRead(prev, id) ==
    [i \in 1..Len(prev) |->
        IF prev[i].id = id THEN [prev[i] EXCEPT !.read = TRUE] ELSE prev[i]]

\* a list an earlier session left in localStorage: n entries, newest first
StoredNotifications(n) ==
    [i \in 1..n |-> [type |-> "info", title |-> "Student Removed",
                      id |-> ToString(i - n), timestamp |-> i - n, read |-> FALSE]]

NotifInit ==
    /\ notifications \in { StoredNotifications(n) :
                              n \in {0, NotificationLimit - 1, NotificationLimit} }
    /\ n_now = 1
    /\ n_calls = 0
    /\ n_last = Null
    /\ MatchIdle
    /\ MainIdle

NotifTick ==
    /\ n_now < MaxNotifClock
    /\ n_now' = n_now + 1
    /\ UNCHANGED <<notifications, n_calls, n_last>>

NotifAdd ==
    /\ n_calls < MaxNotifCalls
    /\ \E k \in NotificationKinds :
          /\ notifications' = AddNotification(notifications, NewNotification(k, n_now))
          /\ n_last' = Some([op |-> "add", arg |-> NewNotification(k, n_now),
                             prev |-> notifications])
    /\ n_calls' = n_calls + 1
    /\ UNCHANGED n_now

\* the check mark is shown on unread entries; the entries clicked here are
\* the two newest and the oldest
NotifMarkAsRead ==
    /\ n_calls < MaxNotifCalls
    /\ \E i \in {1, 2, Len(notifications)} \cap (1..Len(notifications)) :
          /\ ~notifications[i].read
          /\ notifications' = MarkAsRead(notifications, notifications[i].id)
          /\ n_last' = Some([op |-> "read", arg |-> notifications[i].id,
                             prev |-> notifications])
    /\ n_calls' = n_calls + 1
    /\ UNCHANGED n_now

NotifClearAll ==
    /\ n_calls < MaxNotifCalls
    /\ Len(notifications) > 0
    /\ notifications' = <<>>
    /\ n_last' = Some([op |-> "clear", arg |-> "", prev |-> notifications])
    /\ n_calls' = n_calls + 1
    /\ UNCHANGED n_now

NotifNext ==
    /\ NotifTick \/ NotifAdd \/ NotifMarkAsRead \/ NotifClearAll
    /\ UNCHANGED <<matchVars, mainVars>>

NotifSpec == NotifInit /\ [][NotifNext]_vars

\* C9: the list never holds more than 50 entries, and adding to a list of 50
\* leaves 50: the new entry first, then the old entries but the last, in order.
C9_NotificationBound ==
    /\ Len(notifications) <= NotificationLimit
    /\ (n_last # Null /\ n_last[1].op = "add"
            /\ Len(n_last[1].prev) = NotificationLimit) =>
          /\ Len(notifications) = NotificationLimit
          /\ notifications[1] = n_last[1].arg
          /\ \A i \in 2..NotificationLimit : notifications[i] = n_last[1].prev[i - 1]

C9_Witness ==
    /\ n_last # Null /\ n_last[1].op = "add"
    /\ Len(n_last[1].prev) = NotificationLimit
    /\ n_last[1].prev[1].title = "Already Marked"
    /\ n_last[1].prev[2].read

\* the entries of the list that a call of markAsRead changed
C24_Changed ==
    { i \in 1..Len(notifications) : notifications[i] # n_last[1].prev[i] }

\* C24: no two entries of the list have the same id, and a call of markAsRead
\* on an unread entry sets the read flag of exactly one entry and changes
\* nothing else.
C24_UniqueIds ==
    /\ \A i, j \in 1..Len(notifications) :
          notifications[i].id = notifications[j].id => i = j
    /\ (n_last # Null /\ n_last[1].op = "read") =>
          /\ Len(notifications) = Len(n_last[1].prev)
          /\ Cardinality(C24_Changed) = 1
          /\ \A i \in C24_Changed :
                notifications[i] = [n_last[1].prev[i] EXCEPT !.read = TRUE]

(***************************************************************************)
(* The application: Supabase tables, useDatabase, App and CameraView       *)
(***************************************************************************)

\* what new Date() can read, in order: [day, minute of the day].  Working
\* hours are 09:00-17:00 (540..1020); 23:59 of day 1 is followed by 00:00 of
\* day 2.
ClockPoints ==
    << [day |-> 1, minute |-> 539],  [day |-> 1, minute |-> 540],
       [day |-> 1, minute |-> 1020], [day |-> 1, minute |-> 1021],
       [day |-> 1, minute |-> 1439], [day |-> 2, minute |-> 0] >>

\* date.toDateString()
ToDateString(t) == ClockPoints[t].day
\* date.getHours() * 60 + date.getMinutes()
MinutesOfDay(t) == ClockPoints[t].minute

\* the clock points a later new Date() of the same synchronous run can read
\* after one that read t: t itself, or the next point when it is the next
\* minute
LaterReads(t) ==
    {t} \cup { u \in {t + 1} :
                 /\ u <= Len(ClockPoints)
                 /\ \/ /\ ClockPoints[u].day = ClockPoints[t].day
                       /\ ClockPoints[u].minute = ClockPoints[t].minute + 1
                    \/ /\ ClockPoints[u].day = ClockPoints[t].day + 1
                       /\ ClockPoints[t].minute = 1439
                       /\ ClockPoints[u].minute = 0 }

\* values of Math.random() in Spec: below the false-negative rate, and high
AppDraws == {100, 999}

\* "HH:MM" as its two parts
DefaultSettings ==
    [autoMarkingEnabled |-> TRUE, confidenceThreshold |-> 750,
     allowMultipleMarking |-> FALSE,
     workingHours |-> [start |-> [hh |-> 9, mm |-> 0], end |-> [hh |-> 17, mm |-> 0]]]

\* parseInt(s.split(':')[0]) * 60 + parseInt(s.split(':')[1])
ParseMinutes(hhmm) == hhmm.hh * 60 + hhmm.mm

\* the rows of table students when the page loads
InitialStudents ==
    << [id |-> 1, photo |-> "img", is_active |-> TRUE, created_at |-> 0],
       [id |-> 2, photo |-> "img", is_active |-> TRUE, created_at |-> 0] >>

RemoveAt(seq, i) == SubSeq(seq, 1, i - 1) \o SubSeq(seq, i + 1, Len(seq))

RECURSIVE Reverse(_)
Reverse(seq) == IF seq = <<>> THEN <<>> ELSE Reverse(Tail(seq)) \o <<Head(seq)>>

\* select * from students order by created_at desc, under the row level
\* security policy "Anyone can view active students", then the map of
\* fetchStudents
SelectStudents(table) ==
    LET visible == SelectSeq(table, LAMBDA row : row.is_active)
    IN  Reverse([i \in 1..Len(visible) |->
                   [id |-> visible[i].id, photo |-> visible[i].photo,
                    registeredAt |-> visible[i].created_at,
                    isActive |-> visible[i].is_active]])

\* select * from attendance_records, then the map of fetchRecords (the order
\* of the rows is read by the dashboards only)
SelectRecords(table) ==
    { [id |-> row.id, studentId |-> row.student_id, timestamp |-> row.timestamp,
       confidence |-> row.confidence] : row \in table }

\* useState(settings.autoMarkingEnabled), useState(settings.confidenceThreshold),
\* useState(false); useCamera starts with the camera off
InitialCamera(stg) ==
    [isActive |-> FALSE, isProcessing |-> FALSE,
     autoMode |-> stg.autoMarkingEnabled,
     confidenceThreshold |-> stg.confidenceThreshold]

\* App renders CameraView when it is past its loading and error screens and
\* the camera tab is selected
RendersCameraView(ld, err, tab) == ~ld /\ err = Null /\ tab = "camera"

\* the state of CameraView after a commit: kept while it stays mounted, new
\* when it mounts, gone when it unmounts
CommitCamera(cam, ld, err, tab, stg) ==
    IF RendersCameraView(ld, err, tab)
    THEN (IF cam = Null THEN Some(InitialCamera(stg)) ELSE cam)
    ELSE Null

\* what one render of App and CameraView closes over
Render(studs, recs, ld, err, stg, tab, cam) ==
    [students |-> studs, records |-> recs, loading |-> ld, error |-> err,
     settings |-> stg, activeTab |-> tab, camera |-> cam]

\* the dependencies of the interval effect: [isActive, autoMode, isProcessing]
EffectDeps(cam) == <<cam[1].isActive, cam[1].autoMode, cam[1].isProcessing>>

\* the interval effect after a commit: cleaned up and set up again when its
\* dependencies changed, with the callback of the new render
CommitTimer(oldView, oldTimer, newView) ==
    IF newView.camera = Null THEN Null
    ELSE IF oldView.camera # Null /\ EffectDeps(oldView.camera) = EffectDeps(newView.camera)
         THEN oldTimer
         ELSE (IF newView.camera[1].isActive THEN Some(newView) ELSE Null)

\* a call of handleRecognition that lost its CameraView: its setIsProcessing
\* has no effect any more
Orphaned(atts) == [i \in 1..Len(atts) |-> [atts[i] EXCEPT !.mounted = FALSE]]

\* useState of StudentRegistry (the form is empty, no photo captured) and of
\* SettingsPanel (localSettings = settings, hasChanges = false)
InitialPanel(tab, stg) ==
    IF tab = "students"
    THEN [tab |-> tab, filled |-> FALSE, capturedPhoto |-> Null]
    ELSE [tab |-> tab, localSettings |-> stg, hasChanges |-> FALSE]

\* the state of StudentRegistry or SettingsPanel after a commit: kept while
\* it stays mounted, new when it mounts, gone when it unmounts
CommitPanel(pnl, ld, err, tab, stg) ==
    IF ld \/ err # Null \/ tab \notin {"students", "settings"} THEN Null
    ELSE IF pnl # Null /\ pnl[1].tab = tab THEN pnl
    ELSE Some(InitialPanel(tab, stg))

\* React commits the state: the part of every step that ends with a render.
\* cam and atts are the CameraView state and the attempts the step leaves.
Commit(cam, atts, pnl) ==
    LET newCam == CommitCamera(cam, loading', error', activeTab', settings')
        newView == Render(students', records', loading', error', settings',
                          activeTab', newCam)
    IN  /\ camera' = newCam
        /\ view' = newView
        /\ timer' = CommitTimer(view, timer, newView)
        /\ attempts' = IF newCam = Null THEN Orphaned(atts) ELSE atts
        /\ panel' = CommitPanel(pnl, loading', error', activeTab', settings')

\* a call of useDatabase in flight: step is the request it waits for, ok and
\* data the response once the server has answered
Op(kind, step, arg, ctx) ==
    [kind |-> kind, step |-> step, arg |-> arg, ctx |-> ctx, ok |-> TRUE, data |-> Null]

Init ==
    /\ notifications = <<>>
    /\ NotifIdle
    /\ MatchIdle
    /\ db_students = InitialStudents
    /\ db_records = {}
    /\ students = <<>>
    /\ records = {}
    /\ loading = TRUE
    /\ error = Null
    /\ ops = << Op("load", "fetchStudents", Null, Null),
                Op("load", "fetchRecords", Null, Null) >>
    /\ settings \in { DefaultSettings,
                      [DefaultSettings EXCEPT !.allowMultipleMarking = TRUE] }
    /\ activeTab = "camera"
    /\ camera = Null
    /\ attempts = <<>>
    /\ panel = Null
    /\ view = Render(<<>>, {}, TRUE, Null, settings, "camera", Null)
    /\ timer = Null
    /\ clock = 1
    /\ started = [attempts |-> 0, registry |-> 0, records |-> 0, failures |-> 0, students |-> 2, edits |-> 0]
    /\ lastDecision = Null
    /\ lastMarked = Null
    /\ lastRemoved = Null
    /\ lastToggled = Null

\* ---- the environment ----------------------------------------------------

\* new Date() never reads an earlier point than the last one read: time
\* passes between the steps, and shows where a step reads the clock
ClockReads == clock..Len(ClockPoints)

\* ---- React ----------------------------------------------------------------

\* a render that state set outside an event handler has scheduled
Rerender ==
    /\ view # Render(students, records, loading, error, settings, activeTab, camera)
    /\ UNCHANGED <<notifications, dbVars, hookVars, settings, activeTab, envVars, lastVars>>
    /\ Commit(camera, attempts, panel)

\* ---- App and CameraView: what the user does ----------------------------

\* App shows its tabs
OnScreen == ~view.loading /\ view.error = Null

Tabs == {"camera", "students"}

SwitchTab ==
    /\ OnScreen
    /\ \E tab \in Tabs \ {view.activeTab} : activeTab' = tab
    /\ UNCHANGED <<notifications, dbVars, hookVars, settings, envVars, lastVars>>
    /\ Commit(camera, attempts, panel)

\* startCamera / stopCamera of useCamera
ToggleCamera ==
    /\ OnScreen
    /\ view.camera # Null
    /\ UNCHANGED <<notifications, dbVars, hookVars, settings, activeTab, envVars, lastVars>>
    /\ Commit(Some([camera[1] EXCEPT !.isActive = ~view.camera[1].isActive]), attempts, panel)

\* students.filter(s => s.isActive), the students prop of CameraView
ActiveStudents(studentList) == SelectSeq(studentList, LAMBDA st : st.isActive)

\* captureFrame() of useCamera: a frame while the camera is on, else null
CaptureFrame == IF camera # Null /\ camera[1].isActive THEN Some("frame") ELSE Null

\* handleRecognition of render c passes its guard
Recognizes(c) == c.camera[1].isActive /\ ~c.camera[1].isProcessing

\* handleRecognition of render c reaches the await of the matcher: there is a
\* frame and the matcher does not return at once
AwaitsMatcher(c) ==
    /\ Recognizes(c)
    /\ CaptureFrame # Null
    /\ StudentsWithPhotos(ActiveStudents(c.students)) # <<>>

\* the call of handleRecognition of render c, suspended at the await
Attempt(c) ==
    [students |-> ActiveStudents(c.students),
     confidenceThreshold |-> c.camera[1].confidenceThreshold,
     records |-> c.records, settings |-> c.settings, mounted |-> TRUE]

\* the button Mark Attendance: handleRecognition of the render on screen, up
\* to the await.  Without a frame or without a candidate the call sets
\* isProcessing and resets it at once: no step.
ClickMarkAttendance ==
    /\ OnScreen
    /\ view.camera # Null
    /\ view.camera[1].isActive
    /\ ~view.camera[1].isProcessing
    /\ AwaitsMatcher(view)
    /\ started.attempts < MaxAttempts
    /\ started' = [started EXCEPT !.attempts = @ + 1]
    /\ UNCHANGED <<notifications, dbVars, hookVars, settings, activeTab, clock, lastVars>>
    /\ Commit(Some([camera[1] EXCEPT !.isProcessing = TRUE]), Append(attempts, Attempt(view)), panel)

\* the interval callback with Math.random() > 0.7: handleRecognition of the
\* render the interval closes over, up to the await
IntervalTick ==
    /\ timer # Null
    /\ camera # Null
    /\ timer[1].camera[1].autoMode
    /\ ~timer[1].camera[1].isProcessing
    /\ AwaitsMatcher(timer[1])
    /\ started.attempts < MaxAttempts
    /\ started' = [started EXCEPT !.attempts = @ + 1]
    /\ camera' = Some([camera[1] EXCEPT !.isProcessing = TRUE])
    /\ attempts' = Append(attempts, Attempt(timer[1]))
    /\ UNCHANGED <<notifications, dbVars, hookVars, settings, activeTab, panel, view, timer,
                   clock, lastVars>>

\* the positions of the two range inputs (0.5 to 0.95 in steps of 0.05) that
\* the model moves them to
SliderValues == {750, 900}

\* the slider Confidence Threshold of CameraView, shown while the camera is
\* on: setConfidenceThreshold(parseFloat(e.target.value))
SetConfidenceThreshold ==
    /\ OnScreen
    /\ view.camera # Null
    /\ view.camera[1].isActive
    /\ \E v \in SliderValues \ {view.camera[1].confidenceThreshold} :
          /\ UNCHANGED <<notifications, dbVars, hookVars, settings, activeTab, envVars,
                         lastVars>>
          /\ Commit(Some([camera[1] EXCEPT !.confidenceThreshold = v]), attempts, panel)

\* the switch Auto Recognition of CameraView, shown while the camera is on:
\* setAutoMode(!autoMode)
ToggleAutoMode ==
    /\ OnScreen
    /\ view.camera # Null
    /\ view.camera[1].isActive
    /\ UNCHANGED <<notifications, dbVars, hookVars, settings, activeTab, envVars, lastVars>>
    /\ Commit(Some([camera[1] EXCEPT !.autoMode = ~view.camera[1].autoMode]), attempts, panel)

\* ---- SettingsPanel ------------------------------------------------------

\* the tab Settings
OpenSettings ==
    /\ OnScreen
    /\ view.activeTab # "settings"
    /\ activeTab' = "settings"
    /\ UNCHANGED <<notifications, dbVars, hookVars, settings, envVars, lastVars>>
    /\ Commit(camera, attempts, panel)

\* the end of the working hours that the model types into the time input
EndTimes == {[hh |-> 17, mm |-> 0], [hh |-> 23, mm |-> 59]}

\* handleChange and handleNestedChange: the local settings after one control
\* of the panel is used
SettingsEdits(local) ==
    {[local EXCEPT !.autoMarkingEnabled = ~@],
     [local EXCEPT !.allowMultipleMarking = ~@]}
    \cup {[local EXCEPT !.confidenceThreshold = v] :
             v \in SliderValues \ {local.confidenceThreshold}}
    \cup {[local EXCEPT !.workingHours.end = e] :
             e \in EndTimes \ {local.workingHours.end}}

\* the user changes one setting in the panel
EditSettings ==
    /\ OnScreen
    /\ view.activeTab = "settings"
    /\ panel # Null
    /\ started.edits < MaxSettingsEdits
    /\ started' = [started EXCEPT !.edits = @ + 1]
    /\ \E newSettings \in SettingsEdits(panel[1].localSettings) :
          /\ UNCHANGED <<notifications, dbVars, hookVars, settings, activeTab, clock,
                         lastVars>>
          /\ Commit(camera, attempts,
                    Some([panel[1] EXCEPT !.localSettings = newSettings,
                                          !.hasChanges = TRUE]))

\* the button Save Changes, shown when hasChanges: handleSave
SaveSettings ==
    /\ OnScreen
    /\ view.activeTab = "settings"
    /\ panel # Null
    /\ panel[1].hasChanges
    /\ settings' = panel[1].localSettings
    /\ UNCHANGED <<notifications, dbVars, hookVars, activeTab, envVars, lastVars>>
    /\ Commit(camera, attempts, Some([panel[1] EXCEPT !.hasChanges = FALSE]))

\* ---- handleAttendanceMarked -------------------------------------------

\* records.some(r => r.studentId === record.studentId &&
\*                   r.timestamp && r.timestamp.toDateString() === today)
HasAttendedToday(recs, record, today) ==
    \E r \in recs : r.studentId = record.studentId /\ ToDateString(r.timestamp) = today

\* a plausible slip: the test of the policy left out
PersistsAlways(hasAttendedToday, allowMultipleMarking) == TRUE

\* !hasAttendedToday || settings.allowMultipleMarking
Persists(hasAttendedToday, allowMultipleMarking) ==
    ~hasAttendedToday \/ allowMultipleMarking

\* currentTime >= startTime && currentTime <= endTime
InWorkingHours(currentTime, startTime, endTime) ==
    currentTime >= startTime /\ currentTime <= endTime

\* a plausible slip: the success notice whatever the working hours
MarkedNoticeSuccess(ctx) == [type |-> "success", title |-> "Attendance Marked"]

\* the notice after addAttendanceRecord has returned
MarkedNotice(ctx) ==
    IF InWorkingHours(ctx.currentTime, ctx.startTime, ctx.endTime)
    THEN [type |-> "success", title |-> "Attendance Marked"]
    ELSE [type |-> "warning", title |-> "Outside Working Hours"]

\* a plausible slip: setIsProcessing(false) left out
ResetProcessingNever(att) == camera

\* setIsProcessing(false) of a call of handleRecognition
ResetProcessing(att) ==
    IF att.mounted /\ camera # Null
    THEN Some([camera[1] EXCEPT !.isProcessing = FALSE])
    ELSE camera

\* the matcher resolves: the rest of handleRecognition, with the synchronous
\* part of handleAttendanceMarked of the render the call started from
AttemptResolve ==
    \E i \in 1..Len(attempts) :
      LET att == attempts[i]
          n == Len(StudentsWithPhotos(att.students))
      IN
      \E rnd \in [1..(n + 2) -> AppDraws] : \E t1 \in ClockReads :
        LET result == MatchAfterDelay(att.students, att.confidenceThreshold,
                                      ToDateString(t1), rnd)
        IN
        /\ attempts' = RemoveAt(attempts, i)
        /\ camera' = ResetProcessing(att)
        /\ IF result # Null /\ result[1].confidence >= att.confidenceThreshold
           THEN \E t2 \in LaterReads(t1) : \E t3 \in LaterReads(t2) :
                  LET record == [studentId |-> result[1].student.id,
                                 timestamp |-> t1,
                                 confidence |-> result[1].confidence]
                      today == ToDateString(t2)
                      hasAttendedToday == HasAttendedToday(att.records, record, today)
                      ctx == [currentTime |-> MinutesOfDay(t3),
                              startTime |-> ParseMinutes(att.settings.workingHours.start),
                              endTime |-> ParseMinutes(att.settings.workingHours.end)]
                  IN
                  /\ clock' = t3
                  /\ IF Persists(hasAttendedToday, att.settings.allowMultipleMarking)
                     THEN /\ ops' = Append(ops, Op("record", "write", record, ctx))
                          /\ UNCHANGED notifications
                     ELSE /\ notifications' = AddNotification(notifications,
                                 NewNotification([type |-> "warning",
                                                  title |-> "Already Marked"], t3))
                          /\ UNCHANGED ops
                  /\ lastDecision' = Some([record |-> record, today |-> today,
                                           records |-> att.records,
                                           allowMultipleMarking |->
                                               att.settings.allowMultipleMarking,
                                           created |-> Len(ops') - Len(ops),
                                           notified |-> IF notifications' = notifications
                                                        THEN <<>>
                                                        ELSE <<notifications'[1]>>])
           ELSE UNCHANGED <<notifications, ops, clock, lastDecision>>
        /\ UNCHANGED <<dbVars, students, records, loading, error, settings, activeTab, panel,
                       view, timer, started, lastMarked, lastRemoved, lastToggled>>

\* ---- the student registry ---------------------------------------------

\* the button Remove of a listed student: handleRemoveStudent up to the await
\* of removeStudent
ClickRemoveStudent ==
    /\ OnScreen
    /\ view.activeTab = "students"
    /\ started.registry < MaxRegistryOps
    /\ \E i \in 1..Len(view.students) :
          ops' = Append(ops, Op("remove", "write", [id |-> view.students[i].id],
                                [student |-> Some(view.students[i])]))
    /\ started' = [started EXCEPT !.registry = @ + 1]
    /\ UNCHANGED <<notifications, dbVars, students, records, loading, error,
                   settings, activeTab, clock, lastVars>>
    /\ Commit(camera, attempts, panel)

\* a plausible slip: no test of the student found, !undefined being true
ToggleRequestUnguarded(studentList, id) ==
    LET found == SelectSeq(studentList, LAMBDA st : st.id = id)
    IN  Some([id |-> id, is_active |-> IF found = <<>> THEN TRUE ELSE ~found[1].isActive])

\* students.find(s => s.id === id) and 'if (!student) return': the update
\* toggleStudentStatus asks for, or null when it returns at once
ToggleRequest(studentList, id) ==
    LET found == SelectSeq(studentList, LAMBDA st : st.id = id)
    IN  IF found = <<>> THEN Null
        ELSE Some([id |-> id, is_active |-> ~found[1].isActive])

\* handleToggleStudentStatus(id) and toggleStudentStatus(id), over the
\* students of the render on screen, up to the await of the update
CallToggleStatus(id) ==
    /\ OnScreen
    /\ view.activeTab = "students"
    /\ started.registry < MaxRegistryOps
    /\ LET request == ToggleRequest(view.students, id)
       IN  ops' = IF request = Null THEN ops
                  ELSE Append(ops, Op("toggle", "write", request[1], Null))
    /\ started' = [started EXCEPT !.registry = @ + 1]
    /\ lastToggled' = Some([id |-> id, students |-> view.students,
                            call |-> started'.registry])
    /\ UNCHANGED <<notifications, dbVars, students, records, loading, error,
                   settings, activeTab, clock, lastDecision, lastMarked, lastRemoved>>
    /\ Commit(camera, attempts, panel)

\* the button of a listed student that toggles its status
ClickToggleStatus ==
    \E i \in 1..Len(view.students) : CallToggleStatus(view.students[i].id)

\* the ids table students has given out or gives out next
StudentIds == 1..(started.students + 1)

\* toggleStudentStatus called with the id of no student of the list
ToggleUnlisted ==
    \E id \in StudentIds :
      /\ \A i \in 1..Len(view.students) : view.students[i].id # id
      /\ CallToggleStatus(id)

\* ---- StudentRegistry: the form Register New Student ------------------

\* the registry tab is shown with its form
FormShown == OnScreen /\ view.activeTab = "students" /\ panel # Null

\* canvas.toDataURL('image/jpeg', 0.8): the picture, or "data:," of a video
\* element that has no frame yet
DataURLs == {"img", "data:,"}

\* the user types name and email, or clears them: filled is
\* name.trim() && email.trim()
FillForm ==
    /\ FormShown
    /\ UNCHANGED <<notifications, dbVars, hookVars, settings, activeTab, envVars, lastVars>>
    /\ Commit(camera, attempts, Some([panel[1] EXCEPT !.filled = ~@]))

\* capturePhoto
CapturePhoto ==
    /\ FormShown
    /\ \E photoData \in DataURLs :
          /\ UNCHANGED <<notifications, dbVars, hookVars, settings, activeTab, envVars,
                         lastVars>>
          /\ Commit(camera, attempts,
                    Some([panel[1] EXCEPT !.capturedPhoto = Some(photoData)]))

\* the button on the captured photo: setCapturedPhoto(null)
ClearPhoto ==
    /\ FormShown
    /\ panel[1].capturedPhoto # Null
    /\ UNCHANGED <<notifications, dbVars, hookVars, settings, activeTab, envVars, lastVars>>
    /\ Commit(camera, attempts, Some([panel[1] EXCEPT !.capturedPhoto = Null]))

\* a plausible slip: the submit button is never disabled
SubmitAlwaysEnabled(frm) == TRUE

\* the submit button, disabled={!capturedPhoto}: a form whose submit button
\* is disabled is not submitted, by a click or by Enter
SubmitEnabled(frm) == frm.capturedPhoto # Null

\* photo: capturedPhoto || undefined, an absent photo being ""
PhotoOf(frm) == IF frm.capturedPhoto = Null THEN "" ELSE frm.capturedPhoto[1]

\* handleSubmit, with handleAddStudent and addStudent up to the await of the
\* insert; the form is reset
SubmitStudent ==
    /\ FormShown
    /\ SubmitEnabled(panel[1])
    /\ panel[1].filled
    /\ started.registry < MaxRegistryOps
    /\ ops' = Append(ops, Op("add", "write", [photo |-> PhotoOf(panel[1])], Null))
    /\ started' = [started EXCEPT !.registry = @ + 1]
    /\ UNCHANGED <<notifications, dbVars, students, records, loading, error,
                   settings, activeTab, clock, lastVars>>
    /\ Commit(camera, attempts, Some(InitialPanel("students", settings)))

\* ---- Supabase serves a request ----------------------------------------

\* the foreign key of attendance_records.student_id
ReferencesStudent(table, studentId) == \E i \in 1..Len(table) : table[i].id = studentId

\* insert into attendance_records
InsertRecord(table, record, id) ==
    table \cup { [id |-> id, student_id |-> record.studentId,
                  timestamp |-> record.timestamp, confidence |-> record.confidence] }

\* delete from students where id = ..., on the rows the policies let the
\* request see
DeleteStudent(table, id) ==
    SelectSeq(table, LAMBDA row : ~(row.id = id /\ row.is_active))

\* a plausible slip: the delete of a student clears the table of records
CascadeEvery(table, studentsBefore, studentsAfter) ==
    IF studentsBefore = studentsAfter THEN table ELSE {}

\* ON DELETE CASCADE: the records of the students that are gone
Cascade(table, studentsBefore, studentsAfter) ==
    { row \in table : ReferencesStudent(studentsAfter, row.student_id)
                        \/ ~ReferencesStudent(studentsBefore, row.student_id) }

\* a request arrives at the server and is refused: the response carries an
\* error
ServerRefuses ==
    \E i \in 1..Len(ops) :
      /\ ops[i].step \in {"write", "fetchStudents", "fetchRecords"}
      /\ started.failures < MaxFailures
      /\ started' = [started EXCEPT !.failures = @ + 1]
      /\ ops' = [ops EXCEPT ![i].ok = FALSE, ![i].step = ops[i].step \o "Resp"]
      /\ UNCHANGED <<notifications, dbVars, students, records, loading, error, appVars,
                     clock, lastVars>>

\* a plausible slip: no foreign key on attendance_records.student_id
ForeignKeyUnchecked(table, studentId) == TRUE

\* student_id uuid NOT NULL REFERENCES students(id), checked on insert
ForeignKeyHolds(table, studentId) == ReferencesStudent(table, studentId)

\* the insert of addAttendanceRecord arrives at the server: a student_id
\* that references no row of students violates the foreign key, and the
\* statement fails
ServerInsert ==
    \E i \in 1..Len(ops) :
      /\ ops[i].step = "write"
      /\ ops[i].kind = "record"
      /\ IF ForeignKeyHolds(db_students, ops[i].arg.studentId)
         THEN /\ db_records' = InsertRecord(db_records, ops[i].arg, started.records + 1)
              /\ started' = [started EXCEPT !.records = @ + 1]
              /\ ops' = [ops EXCEPT ![i].step = "writeResp"]
         ELSE /\ ops' = [ops EXCEPT ![i].step = "writeResp", ![i].ok = FALSE]
              /\ UNCHANGED <<db_records, started>>
      /\ UNCHANGED <<notifications, db_students, students, records, loading, error,
                     appVars, clock, lastVars>>

\* insert into students (..., photo, is_active) values (..., true): id and
\* created_at are the defaults of the table
InsertStudent(table, photo, id, now) ==
    Append(table, [id |-> id, photo |-> photo, is_active |-> TRUE, created_at |-> now])

\* the insert of addStudent arrives at the server
ServerInsertStudent ==
    \E i \in 1..Len(ops) :
      /\ ops[i].step = "write"
      /\ ops[i].kind = "add"
      /\ db_students' = InsertStudent(db_students, ops[i].arg.photo,
                                      started.students + 1, clock)
      /\ started' = [started EXCEPT !.students = @ + 1]
      /\ ops' = [ops EXCEPT ![i].step = "writeResp"]
      /\ UNCHANGED <<notifications, db_records, students, records, loading, error,
                     appVars, clock, lastVars>>

\* the rows that update students set is_active = ... where id = ... changes,
\* which are the rows the policy "Anyone can view active students" shows
UpdatedRows(table, id) ==
    { j \in 1..Len(table) : table[j].id = id /\ table[j].is_active }

\* the update of toggleStudentStatus arrives at the server: a new row that
\* the select policy does not show violates row level security, and the
\* statement fails
ServerUpdate ==
    \E i \in 1..Len(ops) :
      /\ ops[i].step = "write"
      /\ ops[i].kind = "toggle"
      /\ IF UpdatedRows(db_students, ops[i].arg.id) # {} /\ ~ops[i].arg.is_active
         THEN /\ ops' = [ops EXCEPT ![i].step = "writeResp", ![i].ok = FALSE]
              /\ UNCHANGED db_students
         ELSE /\ ops' = [ops EXCEPT ![i].step = "writeResp"]
              /\ db_students' = [j \in 1..Len(db_students) |->
                                   IF j \in UpdatedRows(db_students, ops[i].arg.id)
                                   THEN [db_students[j] EXCEPT
                                           !.is_active = ops[i].arg.is_active]
                                   ELSE db_students[j]]
      /\ UNCHANGED <<notifications, db_records, students, records, loading, error,
                     appVars, envVars, lastVars>>

\* the delete of removeStudent arrives at the server
ServerDelete ==
    \E i \in 1..Len(ops) :
      /\ ops[i].step = "write"
      /\ ops[i].kind = "remove"
      /\ db_students' = DeleteStudent(db_students, ops[i].arg.id)
      /\ db_records' = Cascade(db_records, db_students, db_students')
      /\ ops' = [ops EXCEPT ![i].step = "writeResp",
                            ![i].ctx = [student |-> ops[i].ctx.student,
                                        before |-> <<db_students, db_records>>,
                                        after |-> <<db_students', db_records'>>]]
      /\ UNCHANGED <<notifications, students, records, loading, error, appVars,
                     envVars, lastVars>>

\* a select arrives at the server
ServerFetch ==
    \E i \in 1..Len(ops) :
      /\ \/ /\ ops[i].step = "fetchStudents"
            /\ ops' = [ops EXCEPT ![i].step = "fetchStudentsResp",
                                  ![i].data = Some(SelectStudents(db_students))]
         \/ /\ ops[i].step = "fetchRecords"
            /\ ops' = [ops EXCEPT ![i].step = "fetchRecordsResp",
                                  ![i].data = Some(SelectRecords(db_records))]
      /\ UNCHANGED <<notifications, dbVars, students, records, loading, error, appVars,
                     envVars, lastVars>>

\* ---- useDatabase and the handlers of App resume -----------------------

\* a plausible slip: the failure reported as a success
ErrorNoticeAsSuccess == [type |-> "success", title |-> "Error"]

\* addNotification({ type: 'error', title: 'Error', ... }) of the handlers
ErrorNotice == [type |-> "error", title |-> "Error"]

\* a plausible slip: the records refetched after every write
RefetchRecordsAfter(kind) == "fetchRecords"

\* the first refetch after a write: fetchRecords in addAttendanceRecord,
\* fetchStudents in addStudent, removeStudent and toggleStudentStatus
RefetchAfter(kind) == IF kind = "record" THEN "fetchRecords" ELSE "fetchStudents"

\* the response to an insert or delete: on an error setError, the rethrow and
\* the error notice of the handler; else the first refetch is requested
WriteReturns ==
    \E i \in 1..Len(ops) :
      /\ ops[i].step = "writeResp"
      /\ IF ops[i].ok
         THEN /\ ops' = [ops EXCEPT ![i].step = RefetchAfter(ops[i].kind)]
              /\ UNCHANGED <<error, notifications>>
         ELSE /\ ops' = RemoveAt(ops, i)
              /\ error' = Some("failed")
              /\ notifications' = AddNotification(notifications,
                                      NewNotification(ErrorNotice, clock))
      /\ UNCHANGED <<dbVars, students, records, loading, appVars, envVars, lastVars>>

\* a plausible slip: setLoading(false) left out
LoadingNeverEnds(newOps) == loading

\* loadData: Promise.all has settled when no fetch of it is left
LoadingAfter(newOps) ==
    loading /\ \E j \in 1..Len(newOps) : newOps[j].kind = "load"

\* a plausible slip: the error cleared by a fetch that succeeds
ErrorClearedByFetch(ok, err) == IF ok THEN Null ELSE Some("failed")

\* the error state after fetchStudents or fetchRecords: setError is called in
\* the catch only
ErrorAfterFetch(ok, err) == IF ok THEN err ELSE Some("failed")

\* the response to the select of fetchStudents: setStudents or setError, then
\* the caller goes on: removeStudent to fetchRecords, addStudent returns and
\* handleAddStudent raises its notice, toggleStudentStatus returns
FetchStudentsReturns ==
    \E i \in 1..Len(ops) :
      /\ ops[i].step = "fetchStudentsResp"
      /\ students' = IF ops[i].ok THEN ops[i].data[1] ELSE students
      /\ error' = ErrorAfterFetch(ops[i].ok, error)
      /\ ops' = IF ops[i].kind = "remove"
                THEN [ops EXCEPT ![i].step = "fetchRecords", ![i].ok = TRUE,
                                 ![i].data = Null]
                ELSE RemoveAt(ops, i)
      /\ loading' = LoadingAfter(ops')
      /\ notifications' =
            IF ops[i].kind = "add"
            THEN AddNotification(notifications,
                     NewNotification([type |-> "success", title |-> "Student Added"],
                                     clock))
            ELSE notifications
      /\ UNCHANGED <<dbVars, records, appVars, envVars, lastVars>>

\* the response to the select of fetchRecords: setRecords or setError, then
\* the caller returns and its handler raises its notice
FetchRecordsReturns ==
    \E i \in 1..Len(ops) :
      /\ ops[i].step = "fetchRecordsResp"
      /\ records' = IF ops[i].ok THEN ops[i].data[1] ELSE records
      /\ error' = ErrorAfterFetch(ops[i].ok, error)
      /\ ops' = RemoveAt(ops, i)
      /\ loading' = LoadingAfter(ops')
      /\ CASE ops[i].kind = "record" ->
                /\ notifications' = AddNotification(notifications,
                                        NewNotification(MarkedNotice(ops[i].ctx), clock))
                /\ lastMarked' = Some([record |-> ops[i].arg, ctx |-> ops[i].ctx,
                                       notice |-> notifications'[1]])
                /\ UNCHANGED lastRemoved
           [] ops[i].kind = "remove" ->
                /\ notifications' =
                      IF ops[i].ctx.student # Null
                      THEN AddNotification(notifications,
                               NewNotification([type |-> "info",
                                                title |-> "Student Removed"], clock))
                      ELSE notifications
                /\ lastRemoved' = Some([id |-> ops[i].arg.id,
                                        students |-> students, records |-> records',
                                        before |-> ops[i].ctx.before,
                                        after |-> ops[i].ctx.after])
                /\ UNCHANGED lastMarked
           [] OTHER ->
                UNCHANGED <<notifications, lastMarked, lastRemoved>>
      /\ UNCHANGED <<dbVars, students, appVars, envVars, lastDecision, lastToggled>>

\* the matcher and the notification clock of the other specifications rest
OthersRest == UNCHANGED <<matchVars, n_now, n_calls, n_last>>

\* taking attendance: the camera tab, recognition and addAttendanceRecord
Next ==
    \/ Rerender /\ OthersRest
    \/ SwitchTab /\ OthersRest
    \/ ToggleCamera /\ OthersRest
    \/ ClickMarkAttendance /\ OthersRest
    \/ IntervalTick /\ OthersRest
    \/ AttemptResolve /\ OthersRest
    \/ ServerRefuses /\ OthersRest
    \/ ServerInsert /\ OthersRest
    \/ ServerFetch /\ OthersRest
    \/ WriteReturns /\ OthersRest
    \/ FetchStudentsReturns /\ OthersRest
    \/ FetchRecordsReturns /\ OthersRest

Spec == Init /\ [][Next]_vars

\* the timer of simulateFaceRecognition (1 to 3 s) fires: every call that
\* awaits the matcher resumes
FairSpec == Spec /\ WF_vars(AttemptResolve /\ OthersRest)

\* the page has loaded, with the default settings in local storage, and
\* shows the camera tab
SettingsInit ==
    /\ notifications = <<>>
    /\ NotifIdle
    /\ MatchIdle
    /\ db_students = InitialStudents
    /\ db_records = {}
    /\ students = SelectStudents(db_students)
    /\ records = SelectRecords(db_records)
    /\ loading = FALSE
    /\ error = Null
    /\ ops = <<>>
    /\ settings = DefaultSettings
    /\ activeTab = "camera"
    /\ camera = Some(InitialCamera(settings))
    /\ attempts = <<>>
    /\ panel = Null
    /\ view = Render(students, records, loading, error, settings, activeTab, camera)
    /\ timer = Null
    /\ clock = 1
    /\ started = [attempts |-> 0, registry |-> 0, records |-> 0, failures |-> 0,
                  students |-> 2, edits |-> 0]
    /\ lastDecision = Null
    /\ lastMarked = Null
    /\ lastRemoved = Null
    /\ lastToggled = Null

\* the camera tab and the settings: the controls of CameraView and the
\* settings panel, with recognition up to the request of addAttendanceRecord
\* (the answers of the server are the steps of Spec)
SettingsNext ==
    \/ Rerender /\ OthersRest
    \/ SwitchTab /\ OthersRest
    \/ OpenSettings /\ OthersRest
    \/ EditSettings /\ OthersRest
    \/ SaveSettings /\ OthersRest
    \/ ToggleCamera /\ OthersRest
    \/ SetConfidenceThreshold /\ OthersRest
    \/ ToggleAutoMode /\ OthersRest
    \/ ClickMarkAttendance /\ OthersRest
    \/ IntervalTick /\ OthersRest
    \/ AttemptResolve /\ OthersRest

SettingsSpec == SettingsInit /\ [][SettingsNext]_vars

\* rows of table students that registration did not create: one without a
\* photo, one that is not active
Roster ==
    << [id |-> 1, photo |-> "img", is_active |-> TRUE, created_at |-> 0],
       [id |-> 2, photo |-> "", is_active |-> TRUE, created_at |-> 0],
       [id |-> 3, photo |-> "img", is_active |-> FALSE, created_at |-> 0] >>

\* the page loads on the tables of Roster
RosterInit ==
    /\ notifications = <<>>
    /\ NotifIdle
    /\ MatchIdle
    /\ db_students = Roster
    /\ db_records = {}
    /\ students = <<>>
    /\ records = {}
    /\ loading = TRUE
    /\ error = Null
    /\ ops = << Op("load", "fetchStudents", Null, Null),
                Op("load", "fetchRecords", Null, Null) >>
    /\ settings = DefaultSettings
    /\ activeTab = "camera"
    /\ camera = Null
    /\ attempts = <<>>
    /\ panel = Null
    /\ view = Render(<<>>, {}, TRUE, Null, settings, "camera", Null)
    /\ timer = Null
    /\ clock = 1
    /\ started = [attempts |-> 0, registry |-> 0, records |-> 0, failures |-> 0,
                  students |-> 3, edits |-> 0]
    /\ lastDecision = Null
    /\ lastMarked = Null
    /\ lastRemoved = Null
    /\ lastToggled = Null

\* the attempts and removals of one run of RosterSpec are MaxRosterOps at most
RosterBudget == started.attempts + started.registry < MaxRosterOps

\* taking attendance while students are removed
RosterNext ==
    \/ Rerender /\ OthersRest
    \/ SwitchTab /\ OthersRest
    \/ ToggleCamera /\ OthersRest
    \/ ClickMarkAttendance /\ RosterBudget /\ OthersRest
    \/ IntervalTick /\ RosterBudget /\ OthersRest
    \/ AttemptResolve /\ OthersRest
    \/ ClickRemoveStudent /\ RosterBudget /\ OthersRest
    \/ ServerInsert /\ OthersRest
    \/ ServerDelete /\ OthersRest
    \/ ServerFetch /\ OthersRest
    \/ WriteReturns /\ OthersRest
    \/ FetchStudentsReturns /\ OthersRest
    \/ FetchRecordsReturns /\ OthersRest

RosterSpec == RosterInit /\ [][RosterNext]_vars

\* the rows of table attendance_records left by earlier sessions
EarlierRecords ==
    { [id |-> 1, student_id |-> 1, timestamp |-> 1, confidence |-> 980],
      [id |-> 2, student_id |-> 2, timestamp |-> 1, confidence |-> 900] }

\* the student registry, on tables that hold records of earlier sessions
RegistryInit ==
    /\ notifications = <<>>
    /\ NotifIdle
    /\ MatchIdle
    /\ db_students = InitialStudents
    /\ db_records \in {EarlierRecords, {}}
    /\ students = <<>>
    /\ records = {}
    /\ loading = TRUE
    /\ error = Null
    /\ ops = << Op("load", "fetchStudents", Null, Null),
                Op("load", "fetchRecords", Null, Null) >>
    /\ settings = DefaultSettings
    /\ activeTab = "camera"
    /\ camera = Null
    /\ attempts = <<>>
    /\ panel = Null
    /\ view = Render(<<>>, {}, TRUE, Null, settings, "camera", Null)
    /\ timer = Null
    /\ clock = 1
    /\ started = [attempts |-> 0, registry |-> 0, records |-> 2, failures |-> 0, students |-> 2, edits |-> 0]
    /\ lastDecision = Null
    /\ lastMarked = Null
    /\ lastRemoved = Null
    /\ lastToggled = Null

RegistryNext ==
    \/ Rerender /\ OthersRest
    \/ SwitchTab /\ OthersRest
    \/ ClickRemoveStudent /\ OthersRest
    \/ ClickToggleStatus /\ OthersRest
    \/ ToggleUnlisted /\ OthersRest
    \/ FillForm /\ OthersRest
    \/ CapturePhoto /\ OthersRest
    \/ ClearPhoto /\ OthersRest
    \/ SubmitStudent /\ OthersRest
    \/ ServerRefuses /\ OthersRest
    \/ ServerInsertStudent /\ OthersRest
    \/ ServerUpdate /\ OthersRest
    \/ ServerDelete /\ OthersRest
    \/ ServerFetch /\ OthersRest
    \/ WriteReturns /\ OthersRest
    \/ FetchStudentsReturns /\ OthersRest
    \/ FetchRecordsReturns /\ OthersRest

RegistrySpec == RegistryInit /\ [][RegistryNext]_vars

\* every request is answered, and every answer resumes its caller
RegistryFairSpec ==
    /\ RegistrySpec
    /\ WF_vars(ServerFetch /\ OthersRest)
    /\ WF_vars(FetchStudentsReturns /\ OthersRest)
    /\ WF_vars(FetchRecordsReturns /\ OthersRest)

(***************************************************************************)
(* Properties of taking attendance, checked under Spec                     *)
(***************************************************************************)

\* the calendar date and the time of day of a record's own timestamp
DateOf(record) == ToDateString(record.timestamp)
TimeOf(record) == MinutesOfDay(record.timestamp)

\* C1: with allowMultipleMarking = false, storage never holds two records of
\* this session with the same student id and the same calendar date.
C1_NoDuplicateMarking ==
    ~settings.allowMultipleMarking =>
        \A r1, r2 \in db_records :
            (r1.student_id = r2.student_id /\ DateOf(r1) = DateOf(r2)) => r1 = r2

\* the record set the last decision read holds a record of the proposal's
\* student on the proposal's calendar date
C2_Duplicate(d) ==
    \E r \in d.records : r.studentId = d.record.studentId /\ DateOf(r) = DateOf(d.record)

C2_Rejected(d) ==
    /\ d.created = 0
    /\ Len(d.notified) = 1
    /\ d.notified[1].type = "warning"
    /\ d.notified[1].title = "Already Marked"

C2_Accepted(d) == d.created = 1 /\ d.notified = <<>>

\* C2: a proposal is rejected (no create issued, one warning 'Already Marked')
\* if and only if the record set read holds a record of the same student on
\* the same calendar date and allowMultipleMarking is false; every other
\* proposal is accepted.
C2_RejectsIffDuplicate ==
    lastDecision # Null =>
        LET d == lastDecision[1]
        IN  IF C2_Duplicate(d) /\ ~d.allowMultipleMarking
            THEN C2_Rejected(d)
            ELSE C2_Accepted(d)

\* C3: at most one call of simulateFaceRecognition is in progress.
C3_SingleFlight == Len(attempts) <= 1

\* C4: an accepted record whose time of day m has start <= m <= end is
\* announced as 'Attendance Marked', every other one as 'Outside Working
\* Hours'; 09:00 and 17:00 are inside, 08:59 and 17:01 outside.
C4_InclusiveWorkingHours ==
    lastMarked # Null =>
        LET m == TimeOf(lastMarked[1].record)
            normal == lastMarked[1].notice.type = "success"
                        /\ lastMarked[1].notice.title = "Attendance Marked"
            outside == lastMarked[1].notice.type = "warning"
                        /\ lastMarked[1].notice.title = "Outside Working Hours"
        IN  /\ (lastMarked[1].ctx.startTime <= m /\ m <= lastMarked[1].ctx.endTime)
                  => normal
            /\ ~(lastMarked[1].ctx.startTime <= m /\ m <= lastMarked[1].ctx.endTime)
                  => outside
            /\ lastMarked[1].ctx.startTime = 540 /\ lastMarked[1].ctx.endTime = 1020
            /\ m \in {540, 1020} => normal
            /\ m \in {539, 1021} => outside

\* C12: a matcher result that resolves when the camera has been stopped (or
\* CameraView is gone) proposes no record: nothing is handed to
\* handleAttendanceMarked, so no create is issued and no notice raised.
C12_StoppedSessionNotApplied ==
    [][(AttemptResolve /\ (lastDecision' # lastDecision \/ ops' # ops
                              \/ notifications' # notifications))
          => (camera # Null /\ camera[1].isActive)]_vars

\* the in-progress flag of the mounted CameraView
C15_InProgress == camera # Null /\ camera[1].isProcessing

\* C15: whenever the in-progress flag is set it is reset later.
C15_FlagCleared == C15_InProgress ~> ~C15_InProgress

\* the flag was set by a call that awaits the matcher, and that call has
\* resumed and reset it
C15_Witness ==
    /\ camera # Null
    /\ ~camera[1].isProcessing
    /\ started.attempts > 0
    /\ attempts = <<>>
    /\ view.camera # Null /\ view.camera[1].isProcessing

\* C16: the date of the duplicate check and the time of day of the
\* working-hours classification are those of the proposed record's timestamp.
C16_OwnTimestamp ==
    /\ lastDecision # Null =>
          lastDecision[1].today = DateOf(lastDecision[1].record)
    /\ lastMarked # Null =>
          lastMarked[1].ctx.currentTime = TimeOf(lastMarked[1].record)

\* the success and working-hours notices in a list of notifications
C20_Marked(list) ==
    { i \in 1..Len(list) : list[i].title \in {"Attendance Marked", "Outside Working Hours"} }

\* the policy classified the proposal as within the working hours
C20_Normal(ctx) == ctx.startTime <= ctx.currentTime /\ ctx.currentTime <= ctx.endTime

\* the notice n is the one of the classification
C20_NoticeOf(n, ctx) ==
    IF C20_Normal(ctx)
    THEN n.type = "success" /\ n.title = "Attendance Marked"
    ELSE n.type = "warning" /\ n.title = "Outside Working Hours"

\* the create of op has succeeded: its row is in storage
C20_Created(op) ==
    \E row \in db_records : /\ row.student_id = op.arg.studentId
                            /\ row.timestamp = op.arg.timestamp
                            /\ row.confidence = op.arg.confidence

\* the decision d, unless it found a record of the student dated as its own
\* today under allowMultipleMarking = false, issued the create
C20_Handed(d) ==
    ~(~d.allowMultipleMarking
        /\ \E r \in d.records : r.studentId = d.record.studentId /\ DateOf(r) = d.today)
    => (d.created = 1 /\ d.notified = <<>>)

\* C20: every accepted proposal is handed to storage whatever its
\* classification; a successful create is followed by exactly one notice, the
\* success notice of a Normal record or the warning of an OutsideWorkingHours
\* record, and no such notice is raised unless a create has succeeded.
C20_NoticeFollowsCreate ==
    /\ [](lastDecision # Null => C20_Handed(lastDecision[1]))
    /\ [][
       /\ \A i \in 1..Len(ops) :
            (ops[i].kind = "record" /\ ops[i].step = "fetchRecordsResp"
                  /\ ops' = RemoveAt(ops, i))
            => /\ C20_Created(ops[i])
               /\ Len(notifications') = Len(notifications) + 1
               /\ SubSeq(notifications', 2, Len(notifications')) = notifications
               /\ C20_NoticeOf(notifications'[1], ops[i].ctx)
       /\ Cardinality(C20_Marked(notifications')) > Cardinality(C20_Marked(notifications))
            => \E i \in 1..Len(ops) :
                  /\ ops[i].kind = "record" /\ ops[i].step = "fetchRecordsResp"
                  /\ ops' = RemoveAt(ops, i)
                  /\ C20_Created(ops[i])
      ]_vars

\* a record classified outside the working hours was created and announced
\* by the warning
C20_Witness ==
    /\ lastMarked # Null
    /\ ~C20_Normal(lastMarked[1].ctx)
    /\ lastMarked[1].notice.type = "warning"
    /\ \E row \in db_records : row.student_id = lastMarked[1].record.studentId
    /\ Cardinality(C20_Marked(notifications)) = 1

\* the policy rejects the proposal of decision d: a record of the student
\* dated as the decision's today, and multiple marking not allowed
C25_Rejects(d) ==
    /\ ~d.allowMultipleMarking
    /\ \E r \in d.records : r.studentId = d.record.studentId /\ DateOf(r) = d.today

\* the call of addAttendanceRecord at position i returns or throws in this
\* step, and handleAttendanceMarked goes on to its notice
C25_Completes(i) ==
    /\ ops[i].kind = "record"
    /\ \/ ops[i].step = "fetchRecordsResp"
       \/ ops[i].step = "writeResp" /\ ~ops[i].ok
    /\ ops' = RemoveAt(ops, i)

\* C25: a call of handleRecognition that resumes either proposes nothing and
\* raises nothing, or has its record decided on: a rejected record raises the
\* warning Already Marked at once and no create, an accepted one raises
\* nothing until its create returns, and then exactly one notice: error when
\* the create failed, else success or the warning Outside Working Hours by
\* the working hours; no other step of taking attendance raises a notice.
C25_OneNoticePerCall ==
    /\ [][Len(attempts') < Len(attempts) =>
            \/ UNCHANGED <<ops, notifications>>
            \/ /\ lastDecision' # Null
               /\ IF C25_Rejects(lastDecision'[1])
                  THEN /\ ops' = ops
                       /\ Len(notifications') = Len(notifications) + 1
                       /\ Tail(notifications') = notifications
                       /\ notifications'[1].type = "warning"
                       /\ notifications'[1].title = "Already Marked"
                  ELSE /\ notifications' = notifications
                       /\ Len(ops') = Len(ops) + 1
                       /\ ops'[Len(ops')].kind = "record"
                       /\ ops'[Len(ops')].arg = lastDecision'[1].record]_vars
    /\ [][\A i \in 1..Len(ops) :
            C25_Completes(i) =>
              /\ Len(notifications') = Len(notifications) + 1
              /\ Tail(notifications') = notifications
              /\ IF ops[i].step = "writeResp"
                 THEN notifications'[1].type = "error"
                 ELSE C20_NoticeOf(notifications'[1], ops[i].ctx)]_vars
    /\ [][notifications' # notifications =>
            \/ Len(attempts') < Len(attempts)
            \/ \E i \in 1..Len(ops) : C25_Completes(i)]_vars

\* one call has ended with the warning Already Marked after another ended
\* with the notice of a stored record
C25_Witness ==
    /\ lastDecision # Null /\ C25_Rejects(lastDecision[1])
    /\ Len(notifications) = 2
    /\ notifications[1].title = "Already Marked"
    /\ notifications[2].title \in {"Attendance Marked", "Outside Working Hours"}

(***************************************************************************)
(* Properties of taking attendance on other rosters, checked under         *)
(* RosterSpec                                                              *)
(***************************************************************************)

\* the call of handleRecognition at position i resumes in this step and
\* proposes a record
C28_Proposes(i) ==
    /\ attempts' = RemoveAt(attempts, i)
    /\ ops' # ops \/ notifications' # notifications
    /\ lastDecision' # Null

\* C28: the student of every proposed record is, in the list of students the
\* attempt was started with, an active student with a photo that is not
\* empty.
C28_SubjectEligible ==
    [][\A i \in 1..Len(attempts) :
        C28_Proposes(i) =>
          \E k \in 1..Len(attempts[i].students) :
            /\ attempts[i].students[k].id = lastDecision'[1].record.studentId
            /\ attempts[i].students[k].isActive
            /\ attempts[i].students[k].photo # ""]_vars

\* a record was proposed by an attempt whose list held a student without a
\* photo, while storage holds a student that is not active
C28_Witness ==
    /\ lastDecision # Null
    /\ \E k \in 1..Len(students) : students[k].photo = ""
    /\ \E j \in 1..Len(db_students) : ~db_students[j].is_active

\* the student of a row of attendance_records is deleted in this step
C22_StudentDeleted(row) ==
    /\ \E j \in 1..Len(db_students) : db_students[j].id = row.student_id
    /\ \A j \in 1..Len(db_students') : db_students'[j].id # row.student_id

\* C22: a create is issued only for the record of a call of handleRecognition
\* that resumed with a result at or above its threshold and that the policy
\* did not reject; a row enters attendance_records only as the record of
\* such a create; no row changes; a row leaves only when its student is
\* deleted.
C22_RecordsImmutable ==
    /\ [][(Len(ops') > Len(ops) /\ ops'[Len(ops')].kind = "record") =>
            /\ lastDecision' # Null
            /\ ops'[Len(ops')].arg = lastDecision'[1].record
            /\ ~C25_Rejects(lastDecision'[1])
            /\ \E i \in 1..Len(attempts) :
                  /\ attempts' = RemoveAt(attempts, i)
                  /\ ops'[Len(ops')].arg.confidence >= attempts[i].confidenceThreshold]_vars
    /\ [][\A row \in db_records' :
            \/ row \in db_records
            \/ /\ \A old \in db_records : old.id # row.id
               /\ Cardinality(db_records') = Cardinality(db_records) + 1
               /\ \E i \in 1..Len(ops) :
                     /\ ops[i].kind = "record" /\ ops[i].step = "write"
                     /\ row.student_id = ops[i].arg.studentId
                     /\ row.timestamp = ops[i].arg.timestamp
                     /\ row.confidence = ops[i].arg.confidence]_vars
    /\ [][\A row \in db_records :
            row \in db_records' \/ C22_StudentDeleted(row)]_vars

\* the record of a student was stored, and left storage when the student was
\* removed
C22_Witness ==
    /\ lastRemoved # Null
    /\ \E row \in lastRemoved[1].before[2] :
          row.student_id = lastRemoved[1].id /\ row \notin db_records

\* the student of the row is in table students
C29_Referenced(row) ==
    \E j \in 1..Len(db_students) : db_students[j].id = row.student_id

\* the create at position i reaches storage in this step, after its student
\* was deleted
C29_LateCreate(i) ==
    /\ ops[i].kind = "record" /\ ops[i].step = "write"
    /\ \A j \in 1..Len(db_students) : db_students[j].id # ops[i].arg.studentId
    /\ Len(ops') = Len(ops)
    /\ ops'[i].step = "writeResp"

\* C29: every row of attendance_records references a row of students; a
\* create that arrives after its student was deleted stores nothing and is
\* answered with an error, and the handler then raises the error notice.
C29_NoOrphanRecord ==
    /\ [](\A row \in db_records : C29_Referenced(row))
    /\ [][\A i \in 1..Len(ops) :
            C29_LateCreate(i) => (~ops'[i].ok /\ db_records' = db_records)]_vars
    /\ [][\A i \in 1..Len(ops) :
            (ops[i].kind = "record" /\ ops[i].step = "writeResp" /\ ~ops[i].ok
               /\ ops' = RemoveAt(ops, i))
            => (notifications' # <<>> /\ notifications'[1].type = "error"
                  /\ Tail(notifications') = notifications)]_vars

\* the create of a record was refused because its student had been deleted
C29_Witness ==
    \E i \in 1..Len(ops) :
      /\ ops[i].kind = "record" /\ ops[i].step = "writeResp" /\ ~ops[i].ok
      /\ \A j \in 1..Len(db_students) : db_students[j].id # ops[i].arg.studentId

(***************************************************************************)
(* Properties of the settings, checked under SettingsSpec                  *)
(***************************************************************************)

\* a call of handleRecognition reaches the matcher in this step
C11_Invoked == Len(attempts') > Len(attempts)

\* the call of handleRecognition at position i resumes in this step and hands
\* its record to handleAttendanceMarked, which decides on it
C11_Decided(i) ==
    /\ attempts' = RemoveAt(attempts, i)
    /\ ops' # ops \/ notifications' # notifications

\* C11: every invocation of the matcher works with the confidence threshold
\* of the settings as they are at that moment, and every decision of the
\* policy with their working hours and their multiple-marking rule.
C11_SettingsNotSnapshotted ==
    /\ [][C11_Invoked =>
            attempts'[Len(attempts')].confidenceThreshold
                = settings.confidenceThreshold]_vars
    /\ [][\A i \in 1..Len(attempts) :
            C11_Decided(i) =>
              /\ attempts[i].settings.workingHours = settings.workingHours
              /\ attempts[i].settings.allowMultipleMarking
                    = settings.allowMultipleMarking]_vars

\* C19: a tick of the interval invokes the matcher only with the camera on,
\* auto-marking enabled in the settings and no attempt in flight; a click on
\* Mark Attendance only with the camera on and no attempt in flight.
C19_TriggerGuards ==
    /\ [][(IntervalTick /\ OthersRest) =>
            /\ camera[1].isActive
            /\ settings.autoMarkingEnabled
            /\ attempts = <<>>]_vars
    /\ [][(ClickMarkAttendance /\ OthersRest) =>
            /\ camera[1].isActive
            /\ attempts = <<>>]_vars

(***************************************************************************)
(* Properties of the student registry, checked under RegistrySpec          *)
(***************************************************************************)

\* C10: when removeStudent(S) has returned without an error, the local
\* students do not contain S, the local records hold no record of S, and the
\* delete took from storage the row of S and the records of S and no others.
C10_RemovedEverywhere ==
    lastRemoved # Null =>
        LET r == lastRemoved[1]
        IN  /\ \A i \in 1..Len(r.students) : r.students[i].id # r.id
            /\ \A rec \in r.records : rec.studentId # r.id
            /\ \A i \in 1..Len(r.before[1]) :
                  r.before[1][i].id # r.id =>
                      \E j \in 1..Len(r.after[1]) : r.after[1][j] = r.before[1][i]
            /\ \A row \in r.before[2] : row.student_id # r.id => row \in r.after[2]
            /\ \A row \in r.after[2] : row.student_id # r.id

\* the steps a call of useDatabase of this kind takes after step, by the
\* answer it got: the refetches that follow its write
C21_Follows(kind, step, ok) ==
    CASE step = "write" -> {"writeResp"}
      [] step = "writeResp" ->
            IF ~ok THEN {}
            ELSE IF kind = "record" THEN {"fetchRecords"} ELSE {"fetchStudents"}
      [] step = "fetchStudents" -> {"fetchStudentsResp"}
      [] step = "fetchStudentsResp" -> IF kind = "remove" THEN {"fetchRecords"} ELSE {}
      [] step = "fetchRecords" -> {"fetchRecordsResp"}
      [] OTHER -> {}

C13_WriteFails(i) ==
    /\ ops[i].step = "writeResp" /\ ~ops[i].ok
    /\ Len(ops') = Len(ops) - 1
    /\ \A j \in 1..Len(ops') :
          LET before == IF j < i THEN ops[j] ELSE ops[j + 1]
          IN  /\ ops'[j].kind = before.kind
              /\ ops'[j].step = before.step
              /\ ops'[j].ok = before.ok

\* a call of useDatabase starts, or its write is served
C13_WriteAdvances ==
    /\ Len(ops') >= Len(ops)
    /\ \E i \in 1..Len(ops') :
          /\ ops'[i].step \in {"write", "writeResp"}
          /\ i > Len(ops) \/ ops'[i] # ops[i]

\* C13: an operation whose storage write fails leaves the local students and
\* records as they were at each of its steps, raises no success notification,
\* and raises exactly one notification, of type error, when it fails.
C13_FailedWriteLeavesState ==
    /\ [][C13_WriteAdvances =>
            UNCHANGED <<students, records, notifications>>]_vars
    /\ [][\A i \in 1..Len(ops) :
            C13_WriteFails(i) =>
              /\ UNCHANGED <<students, records>>
              /\ Len(notifications') = Len(notifications) + 1
              /\ Tail(notifications') = notifications
              /\ notifications'[1].type = "error"]_vars

\* a write of the registry has failed, and its handler has raised its notice
C13_Witness ==
    /\ error # Null
    /\ \E k \in 1..Len(notifications) : notifications[k].type = "error"

\* C14: every call of addStudent carries a photo that is not empty, and so
\* does every row of students that a registration has created.
C14_PhotoRequired ==
    /\ \A i \in 1..Len(ops) : ops[i].kind = "add" => ops[i].arg.photo # ""
    /\ \A j \in 1..Len(db_students) :
          db_students[j].id > Len(InitialStudents) => db_students[j].photo # ""

\* a registration has created a student
C14_Witness ==
    \E j \in 1..Len(db_students) : db_students[j].id > Len(InitialStudents)

\* the call of toggleStudentStatus at position i returns in this step; no
\* request was refused for a fault of the connection, and no student removed
C23_ToggleReturns(i) ==
    /\ ops[i].kind = "toggle"
    /\ ops' = RemoveAt(ops, i)
    /\ started.failures = 0
    /\ lastRemoved = Null
    /\ \A j \in 1..Len(ops) : ops[j].kind # "remove"

\* C23: when a toggle of a student returns, the local students hold that
\* student with the flag the toggle asked for.
C23_ToggleKeepsStudent ==
    [][\A i \in 1..Len(ops) :
        C23_ToggleReturns(i) =>
          \E k \in 1..Len(students') :
            /\ students'[k].id = ops[i].arg.id
            /\ students'[k].isActive = ops[i].arg.is_active]_vars

\* C30: a call of toggleStudentStatus with an id that is not in the local
\* students starts no request, neither write nor refetch, and leaves error,
\* students, records and the tables as they are.
C30_UnlistedToggleIsNoOp ==
    [][(lastToggled' # lastToggled
          /\ \A k \in 1..Len(lastToggled'[1].students) :
                lastToggled'[1].students[k].id # lastToggled'[1].id)
        => UNCHANGED <<ops, dbVars, students, records, error, notifications>>]_vars

\* toggleStudentStatus was called with the id of a student that was removed
C30_Witness ==
    /\ lastToggled # Null /\ lastRemoved # Null
    /\ lastToggled[1].id = lastRemoved[1].id
    /\ \A k \in 1..Len(lastToggled[1].students) :
          lastToggled[1].students[k].id # lastToggled[1].id

\* C26: once error is set it is never reset, and once the connection-error
\* screen is rendered it stays, whatever fetch or write returns afterwards.
C26_ErrorAbsorbing ==
    /\ [][error # Null => error' # Null]_vars
    /\ [][view.error # Null => (view'.error # Null /\ ~OnScreen')]_vars

\* the error screen is shown and every call of useDatabase has returned
C26_Witness ==
    /\ error # Null /\ view.error # Null /\ ~view.loading
    /\ ops = <<>>
    /\ started.registry > 0

\* a fetch of loadData has not settled yet
C27_Loading == \E j \in 1..Len(ops) : ops[j].kind = "load"

\* C27: loading is true exactly until both fetches of loadData have settled,
\* with or without an error, it becomes false, and it does not become true
\* again.
C27_LoadingTerminates ==
    /\ [](loading <=> C27_Loading)
    /\ [][~loading => ~loading']_vars
    /\ <>(~loading)

\* loadData has returned after a fetch of it failed
C27_Witness ==
    /\ ~loading /\ ~C27_Loading
    /\ error # Null /\ students = <<>>
    /\ started.registry = 0

(***************************************************************************)
(* Properties of the matcher, checked under MatchSpec                      *)
(***************************************************************************)
m_cands == StudentsWithPhotos(m_students)
\* the unrounded confidence the loop computed for candidate i
m_conf(i) == Confidence(m_cands[i], m_now, m_rnd[i + 1])
m_valid == { i \in 1..Len(m_cands) : m_conf(i) >= m_threshold }
\* the invocation ran its loop and the false-negative draw did not fire
m_scored == m_pc = "done" /\ m_delayed /\ ~FalseNegative(m_rnd[Len(m_cands) + 2])

\* C5: among the candidates whose confidence reaches the threshold the result
\* is the one of highest confidence, the earliest of them on a tie.
C5_KeepsHighestFirstSeen ==
    (m_scored /\ m_valid # {}) =>
        /\ m_result # Null
        /\ \E i \in m_valid :
              /\ m_result[1].student = m_cands[i]
              /\ \A j \in m_valid : m_conf(j) <= m_conf(i)
              /\ \A j \in m_valid : m_conf(j) = m_conf(i) => i <= j

\* C6: a non-null result carries a confidence of two decimals that lies in
\* [threshold, 0.98].
C6_ConfidenceBounded ==
    (m_pc = "done" /\ m_result # Null) =>
        /\ m_result[1].confidence % 10 = 0
        /\ m_threshold <= m_result[1].confidence
        /\ m_result[1].confidence <= MaxConfidence

\* C7: a non-null result at the threshold of the invocation stays non-null at
\* every lower threshold, for the same students, clock and random values.
C7_ThresholdMonotone ==
    (m_pc = "done" /\ m_result # Null) =>
        \A t \in Thresholds \cup {m_threshold - 1, m_threshold - 5, 0} :
            (0 <= t /\ t <= m_threshold) =>
                SimulateFaceRecognition(m_students, t, m_now, m_rnd) # Null

C7_Witness ==
    /\ m_pc = "done" /\ m_result # Null /\ m_threshold = 872
    /\ \E i \in 1..Len(m_cands) : m_conf(i) < m_threshold

\* C8: with no student that has a photo the result is null at every threshold,
\* the invocation never awaited the delay and drew no random value.
C8_NoCandidates ==
    (m_pc # "call" /\ Len(SelectSeq(m_students, LAMBDA s : s.photo # "")) = 0) =>
        /\ m_pc = "done"
        /\ m_result = Null
        /\ ~m_delayed
        /\ m_rnd = <<>>

C8_Witness ==
    /\ m_pc = "done"
    /\ Len(m_students) = MaxStudents
    /\ \A i \in 1..Len(m_students) : m_students[i].photo = ""

\* days since the registration of candidate i
m_age(i) == m_now - m_cands[i].registeredAt

\* C17: the recency bonus of a candidate is 0.10 at the registration instant,
\* falls linearly to 0 at 30 days and is never negative; 15 days give 0.05.
C17_RecencyBonus ==
    (m_pc = "done" /\ m_delayed) =>
        \A i \in 1..Len(m_cands) :
            LET bonus == TimeBonus(m_age(i))
                line == 100 * (30 - m_age(i))
            IN  /\ bonus >= 0
                /\ m_age(i) = 0 => bonus = 100
                /\ m_age(i) = 15 => bonus = 50
                /\ m_age(i) >= 30 => bonus = 0
                /\ (0 <= m_age(i) /\ m_age(i) <= 30) =>
                       (30 * bonus - line < 30 /\ line - 30 * bonus < 30)
                /\ m_conf(i) = Min(980, 600 + (350 * m_rnd[i + 1]) \div 1000 + bonus)

\* C18: an invocation with candidates draws the false-negative value once,
\* after the scores; when the draw is below 0.15 the result is null whatever
\* the scores, else it is the match the loop kept, null exactly when no
\* candidate reached the threshold.
C18_FalseNegativeOnce ==
    (m_pc = "done" /\ m_delayed) =>
        /\ Len(m_rnd) = Len(m_cands) + 2
        /\ m_rnd[Len(m_rnd)] < 150 => m_result = Null
        /\ m_rnd[Len(m_rnd)] >= 150 =>
              /\ m_result = MatchLoop(m_cands, m_now, m_rnd, m_threshold, 1, Null)
              /\ m_result = Null <=> m_valid = {}
              /\ m_result # Null =>
                    \E i \in m_valid : /\ m_result[1].student = m_cands[i]
                                       /\ m_result[1].confidence = Round2(m_conf(i))

C18_Witness ==
    /\ m_pc = "done" /\ m_delayed
    /\ m_rnd[Len(m_rnd)] < 150
    /\ Cardinality(m_valid) = MaxStudents
    /\ m_result = Null

====
